---- MODULE Spec2Model ----
(***************************************************************************)
(* A model of the Traccar OsmAnd protocol client (traccar_client.py) and   *)
(* of the event glue that drives it (main.py).                             *)
(*                                                                         *)
(* send_osmand_position is a coroutine.  On a single-threaded event loop   *)
(* it runs without interruption from its call to its first suspension, the *)
(* await of session.get, so argument binding, validation, encoding,        *)
(* session acquisition and the invocation of session.get form one step.    *)
(* The later steps are the events that resume the coroutine: the response  *)
(* head, the response body, a transport failure, the timeout, and the      *)
(* cancellation of the task.                                               *)
(***************************************************************************)
EXTENDS Integers, Sequences, FiniteSets, TLC

VARIABLES
    calls,              \* call id -> the state of that call of send_osmand_position
    extSession,         \* the caller's own aiohttp.ClientSession: "open" | "closed"
    extClosedByCaller,  \* history: the caller itself closed extSession
    lastKnownBattery,   \* main.py's module-level lastKnownBattery
    handledBattery      \* history: the value of the last BatteryEvent handled

vars == <<calls, extSession, extClosedByCaller, lastKnownBattery, handledBattery>>

(***************************************************************************)
(* Python values.  Every value has the same three fields, so that any two  *)
(* can be compared.  A datetime holds microseconds since the Unix epoch.   *)
(***************************************************************************)
None == [tag |-> "none", n |-> 0, s |-> ""]
Num(i) == [tag |-> "num", n |-> i, s |-> ""]
Str(x) == [tag |-> "str", n |-> 0, s |-> x]
Bool(b) == [tag |-> "bool", n |-> IF b THEN 1 ELSE 0, s |-> ""]
Datetime(us) == [tag |-> "datetime", n |-> us, s |-> ""]

\* Python's truth value of an object (`not device_id`, `if charge`).
Truthy(v) ==
    CASE v.tag = "none" -> FALSE
      [] v.tag = "num" -> v.n # 0
      [] v.tag = "bool" -> v.n = 1
      [] v.tag = "str" -> v.s # ""
      [] OTHER -> TRUE

\* isinstance(v, (int, float)); bool is a subclass of int.
IsNumber(v) == v.tag \in {"num", "bool"}

\* The empty dict.
EmptyDict == [k \in {} |-> None]

\* d.get(k), None when absent: a keyword parameter's default.
Get(d, k) == IF k \in DOMAIN d THEN d[k] ELSE None

\* int(x) for the quotient a / b, b > 0: truncation toward zero.
TruncDiv(a, b) == IF a >= 0 THEN a \div b ELSE -((-a) \div b)

(***************************************************************************)
(* The signature of send_osmand_position.  traccar_url, device_id, lat and *)
(* lon are required and filled by every caller (positionally in main.py,   *)
(* by keyword in the docstring's examples); every other parameter is       *)
(* keyword-only; keywords that name no parameter are collected into        *)
(* **custom_attributes.                                                    *)
(***************************************************************************)
PositionalParams == {"traccar_url", "device_id", "lat", "lon"}

KeywordParams ==
    {"timestamp", "speed", "bearing", "altitude", "accuracy", "hdop",
     "battery", "charge", "valid", "driver_unique_id", "session", "timeout"}

ParamNames == PositionalParams \cup KeywordParams

\* Python binds f(url, device_id, lat, lon, **kw, **extra): a keyword given
\* twice, or one naming a required parameter the caller has already filled,
\* is a TypeError raised before the body runs.
BindsOk(kw, extra) ==
    /\ DOMAIN kw \cap DOMAIN extra = {}
    /\ (DOMAIN kw \cup DOMAIN extra) \cap PositionalParams = {}

\* The keyword arguments as one dict (defined when BindsOk).
Keywords(kw, extra) == kw @@ extra

\* The keyword parameters' values.
NamedArgs(kw, extra) ==
    [k \in KeywordParams \ {"session", "timeout"} |-> Get(Keywords(kw, extra), k)]

\* The **custom_attributes dict.
CustomAttributes(kw, extra) ==
    [k \in DOMAIN Keywords(kw, extra) \ ParamNames |-> Keywords(kw, extra)[k]]

(***************************************************************************)
(* Validation of the required parameters: the message of the ValueError,   *)
(* or "" when they are valid.                                              *)
(***************************************************************************)
LatMin == -90
LatMax == 90
LonMin == -180
LonMax == 180

\* Variant: the longitude check is missing.
Validate_NoLonCheck(device_id, lat, lon) ==
    IF ~Truthy(device_id) THEN "device_id is required"
    ELSE IF ~IsNumber(lat) \/ ~(LatMin <= lat.n /\ lat.n <= LatMax)
        THEN "lat must be a number between -90 and 90"
    ELSE ""

Validate(device_id, lat, lon) ==
    IF ~Truthy(device_id) THEN "device_id is required"
    ELSE IF ~IsNumber(lat) \/ ~(LatMin <= lat.n /\ lat.n <= LatMax)
        THEN "lat must be a number between -90 and 90"
    ELSE IF ~IsNumber(lon) \/ ~(LonMin <= lon.n /\ lon.n <= LonMax)
        THEN "lon must be a number between -180 and 180"
    ELSE ""

(***************************************************************************)
(* Encoding of the query parameters.                                       *)
(***************************************************************************)
\* Variant: the parameter is set whether or not a value was given.
Optional_Always(key, v) == (key :> v)

\* `if v is not None: params[key] = v`
Optional(key, v) == IF v = None THEN EmptyDict ELSE (key :> v)

\* `"true" if v else "false"`
BoolString(v) == IF Truthy(v) THEN Str("true") ELSE Str("false")

\* `if v is not None: params[key] = "true" if v else "false"`
OptionalBool(key, v) == IF v = None THEN EmptyDict ELSE (key :> BoolString(v))

\* int(timestamp.timestamp() * 1000): milliseconds since the epoch.
\* (Binary floating point rounding of the product is not modelled.)
EpochMillis(ts) == Num(TruncDiv(ts.n, 1000))

\* Only a datetime has .timestamp(); anything else is an AttributeError.
TimestampOk(ts) == ts = None \/ ts.tag = "datetime"

OptionalTimestamp(ts) ==
    IF ts = None \/ ts.tag # "datetime" THEN EmptyDict
    ELSE ("timestamp" :> EpochMillis(ts))

\* dict.update: the entries of `other` replace those of `d`.
Update(d, other) == other @@ d

\* The protocol parameters computed from the arguments, before the custom
\* attributes are merged.
ProtocolParams(device_id, lat, lon, named) ==
    Update(Update(Update(Update(Update(Update(Update(Update(Update(Update(
        ("id" :> device_id) @@ ("lat" :> lat) @@ ("lon" :> lon),
        OptionalTimestamp(named["timestamp"])),
        Optional("speed", named["speed"])),
        Optional("bearing", named["bearing"])),
        Optional("altitude", named["altitude"])),
        Optional("accuracy", named["accuracy"])),
        Optional("hdop", named["hdop"])),
        Optional("batt", named["battery"])),
        OptionalBool("charge", named["charge"])),
        OptionalBool("valid", named["valid"])),
        Optional("driverUniqueId", named["driver_unique_id"]))

\* `params.update(custom_attributes)`
BuildParams(device_id, lat, lon, named, custom) ==
    Update(ProtocolParams(device_id, lat, lon, named), custom)

\* traccar_url.rstrip('/'): a URL is its text without trailing slashes and the
\* number of trailing slashes.
TraccarUrl == [base |-> "http://localhost:5055", slashes |-> 1]
RStripSlash(u) == [u EXCEPT !.slashes = 0]

(***************************************************************************)
(* Exception classes: each class with its base classes (itself included).  *)
(* A transport failure raised by session.get is an                         *)
(* aiohttp.ClientConnectorError, one raised while the body is read an      *)
(* aiohttp.ClientPayloadError, the timeout an asyncio.TimeoutError, a      *)
(* closed session a RuntimeError; cancellation is asyncio.CancelledError,  *)
(* which derives from BaseException and not from Exception.                *)
(***************************************************************************)
Bases(cls) ==
    CASE cls = "ClientConnectorError" ->
            {"ClientConnectorError", "ClientOSError", "ClientConnectionError",
             "ClientError", "OSError", "Exception", "BaseException"}
      [] cls = "ClientPayloadError" ->
            {"ClientPayloadError", "ClientError", "Exception", "BaseException"}
      [] cls = "CancelledError" -> {"CancelledError", "BaseException"}
      [] cls = "" -> {}
      [] OTHER -> {cls, "Exception", "BaseException"}

IsInstance(cls, base) == base \in Bases(cls)

\* Variant: the except clause wraps what it caught in a ClientError.
Reraise_Wrapped(cls) == "ClientError"

\* `except Exception as e: raise`: the exception leaves as it came.
Reraise(cls) == cls

\* The class that leaves the try statement when `cls` is raised inside it.
Propagate(cls) == IF IsInstance(cls, "Exception") THEN Reraise(cls) ELSE cls

(***************************************************************************)
(* One call of send_osmand_position.                                       *)
(*   pc            "idle" | "awaiting_response" | "reading_body" | "done"  *)
(*                 ("finally" within a step: the try statement was left)   *)
(*   origin        who called: "direct" | "glue"                           *)
(*   device_id, lat, lon, kw, extra, sessArg   the arguments as passed     *)
(*   params, url, session, close_session       the coroutine's locals      *)
(*   own           the session the call created: "none"|"open"|"closed"    *)
(*   gets          the GET requests handed to session.get                  *)
(*   status, body  the response received so far (0, "" before)             *)
(*   cause         what ended the call                                     *)
(*   ret           the value returned: "none" | "True" | "False"           *)
(*   exc, excStatus, excBody   the exception raised and what it carries    *)
(*   fixBattery    history: the last BatteryEvent value handled when the   *)
(*                 glue made the call                                      *)
(***************************************************************************)
IdleCall ==
    [pc |-> "idle", origin |-> "", device_id |-> None, lat |-> None,
     lon |-> None, kw |-> EmptyDict, extra |-> EmptyDict, sessArg |-> "none",
     params |-> EmptyDict, url |-> TraccarUrl, session |-> "none",
     close_session |-> FALSE, own |-> "none", gets |-> <<>>,
     status |-> 0, body |-> "", cause |-> "", ret |-> "none",
     exc |-> "", excStatus |-> 0, excBody |-> "", fixBattery |-> None]

\* The call as entered: the arguments, nothing done yet.
Entered(origin, inp, sessArg) ==
    [IdleCall EXCEPT !.origin = origin, !.device_id = inp.device_id,
                     !.lat = inp.lat, !.lon = inp.lon, !.kw = inp.kw,
                     !.extra = inp.extra, !.sessArg = sessArg]

\* The call ends raising `cls`.
Raised(r, cls, cause) == [r EXCEPT !.exc = cls, !.cause = cause]

\* `return success`
Returned(r, value) == [r EXCEPT !.ret = value, !.cause = "response"]

\* `if session is None: session = aiohttp.ClientSession(); close_session = True`
AcquireSession(r) ==
    IF r.sessArg = "none"
    THEN [r EXCEPT !.session = "own", !.own = "open", !.close_session = TRUE]
    ELSE [r EXCEPT !.session = "ext"]

\* The requests one `session.get(url, params=params, ...)` hands to the session.
Requests(url, params) == <<[url |-> url, params |-> params]>>

\* `session.get(url, params=params, timeout=...)` is invoked.
IssueGet(r) == [r EXCEPT !.gets = @ \o Requests(r.url, r.params)]

\* Variant: the session is closed in the `except Exception` clause and after a
\* normal return, not in a finally clause.
ClosesSession_NotOnCancel(r) ==
    r.close_session /\ (r.exc = "" \/ IsInstance(r.exc, "Exception"))

\* Variant: the finally clause closes whatever session the call used.
ClosesSession_Always(r) == TRUE

\* Whether the finally clause closes the session: `if close_session:`.
ClosesSession(r) == r.close_session

\* The call's state after `finally: if close_session: await session.close()`
\* and the return to the caller, which drops the coroutine's locals.
\* session.close() marks the session closed before it can suspend, so the
\* close is part of the step that leaves the try statement.
FinallyCall(r) ==
    [r EXCEPT !.pc = "done",
              !.own = IF ClosesSession(r) /\ r.session = "own" THEN "closed" ELSE @,
              !.params = EmptyDict, !.url = TraccarUrl,
              !.session = "none", !.close_session = FALSE]

\* The caller's session after the same finally clause.
FinallyExt(r, ext) ==
    IF ClosesSession(r) /\ r.session = "ext" THEN "closed" ELSE ext

\* A call that leaves the try statement: the finally clause is next.
InTry(r) == [r EXCEPT !.pc = "finally"]

\* A call that ends before the try statement is entered.
EndedEarly(r) == [r EXCEPT !.pc = "done"]

\* The code from the call to the first suspension.  `ext` is the state of
\* the caller's session.
Start(origin, inp, sessArg, ext) ==
    LET e == Entered(origin, inp, sessArg)
        msg == Validate(inp.device_id, inp.lat, inp.lon)
        named == NamedArgs(inp.kw, inp.extra)
        built == [e EXCEPT !.params = BuildParams(inp.device_id, inp.lat, inp.lon,
                                          named, CustomAttributes(inp.kw, inp.extra)),
                           !.url = RStripSlash(TraccarUrl)]
        got == IssueGet(AcquireSession(built))
    IN  IF ~BindsOk(inp.kw, inp.extra)
            THEN EndedEarly(Raised(e, "TypeError", "bind"))
        ELSE IF msg # ""
            THEN EndedEarly(Raised(e, "ValueError", "validation"))
        ELSE IF ~TimestampOk(named["timestamp"])
            THEN EndedEarly(Raised(e, "AttributeError", "encode"))
        ELSE IF got.session = "ext" /\ ext = "closed"
            THEN InTry(Raised(got, Propagate("RuntimeError"), "session_closed"))
        ELSE [got EXCEPT !.pc = "awaiting_response"]

(***************************************************************************)
(* Bounds and inputs.                                                      *)
(***************************************************************************)
MaxCalls == 2

CallIds == 1..MaxCalls

OkStatus == 200

Statuses == {OkStatus, 204, 404}

Bodies == {"", "unknown device"}

BatteryLevels == {0, 85}

BotDid == Str("bot-1")

GpsFixes == {[lat |-> Num(37), lon |-> Num(-122)], [lat |-> Num(91), lon |-> Num(0)]}

Sample(device_id, lat, lon, kw, extra) ==
    [device_id |-> device_id, lat |-> lat, lon |-> lon, kw |-> kw, extra |-> extra]

\* The arguments of the direct calls of the lifecycle specification.
DirectInputs ==
    {Sample(Str("veh-1"), Num(37), Num(-122),
            ("battery" :> Num(85)) @@ ("charge" :> Bool(TRUE)), EmptyDict),
     Sample(Str(""), Num(37), Num(-122), EmptyDict, EmptyDict)}

SessionArgs == {"none", "ext"}

(***************************************************************************)
(* The state after construction.                                           *)
(***************************************************************************)
Init ==
    /\ calls = [c \in CallIds |-> IdleCall]
    /\ extSession = "open"
    /\ extClosedByCaller = FALSE
    /\ lastKnownBattery = None
    /\ handledBattery = None

(***************************************************************************)
(* Steps of a call.                                                        *)
(***************************************************************************)
\* Call c moves to r; a call that left the try statement runs the finally
\* clause and returns to its caller in the same step.
Settle(c, r) ==
    /\ calls' = [calls EXCEPT ![c] = IF r.pc = "finally" THEN FinallyCall(r) ELSE r]
    /\ extSession' = IF r.pc = "finally" THEN FinallyExt(r, extSession) ELSE extSession

\* Call c is made with arguments inp and runs to its first suspension.
Enter(c, origin, inp, sessArg, seen) ==
    /\ calls[c].pc = "idle"
    /\ \A d \in CallIds : d < c => calls[d].pc # "idle"
    /\ Settle(c, [Start(origin, inp, sessArg, extSession)
                    EXCEPT !.fixBattery = seen])

\* Variant: every 2xx status counts as success.
Success_Any2xx(status) == status \in 200..299

\* `success = response.status == 200`
Success(status) == status = OkStatus

\* `return success`, reached only in the else branch of `if not success`.
ReturnValue(success) == IF success THEN "True" ELSE "False"

\* The response head arrives: `async with session.get(...) as response`.
OnResponse(r, status) ==
    LET got == [r EXCEPT !.status = status]
    IN  IF ~Success(status)
        THEN [got EXCEPT !.pc = "reading_body"]
        ELSE InTry(Returned(got, ReturnValue(Success(status))))

\* `error_text = await response.text()` completes and the ClientError with the
\* status and the text is raised.
OnBody(r, text) ==
    InTry([Raised(r, Propagate("ClientError"), "status")
            EXCEPT !.body = text, !.excStatus = r.status, !.excBody = text])

\* Variant: a failed connection is answered by sending the request again.
OnTransportFailure_Retry(r) == IssueGet(r)

\* The connection fails while the call awaits the response or its body.
OnTransportFailure(r) ==
    InTry(Raised(r, Propagate(IF r.pc = "awaiting_response"
                              THEN "ClientConnectorError"
                              ELSE "ClientPayloadError"), "transport"))

\* aiohttp.ClientTimeout(total=timeout) expires.
OnTimeout(r) == InTry(Raised(r, Propagate("TimeoutError"), "timeout"))

\* The task running the call is cancelled at its suspension.
OnCancel(r) == InTry(Raised(r, Propagate("CancelledError"), "cancel"))

Suspended(c) == calls[c].pc \in {"awaiting_response", "reading_body"}

DirectCall(c) ==
    /\ calls[c].pc = "idle"
    /\ \E inp \in DirectInputs, sessArg \in SessionArgs :
            Enter(c, "direct", inp, sessArg, None)
    /\ UNCHANGED <<extClosedByCaller, lastKnownBattery, handledBattery>>

RecvResponse(c) ==
    /\ calls[c].pc = "awaiting_response"
    /\ \E status \in Statuses : Settle(c, OnResponse(calls[c], status))
    /\ UNCHANGED <<extClosedByCaller, lastKnownBattery, handledBattery>>

ReadBody(c) ==
    /\ calls[c].pc = "reading_body"
    /\ \E text \in Bodies : Settle(c, OnBody(calls[c], text))
    /\ UNCHANGED <<extClosedByCaller, lastKnownBattery, handledBattery>>

TransportFailure(c) ==
    /\ Suspended(c)
    /\ Settle(c, OnTransportFailure(calls[c]))
    /\ UNCHANGED <<extClosedByCaller, lastKnownBattery, handledBattery>>

Timeout(c) ==
    /\ Suspended(c)
    /\ Settle(c, OnTimeout(calls[c]))
    /\ UNCHANGED <<extClosedByCaller, lastKnownBattery, handledBattery>>

Cancel(c) ==
    /\ Suspended(c)
    /\ Settle(c, OnCancel(calls[c]))
    /\ UNCHANGED <<extClosedByCaller, lastKnownBattery, handledBattery>>

\* The caller closes the session it lends to its calls.
CallerClosesSession ==
    /\ extSession = "open"
    /\ extSession' = "closed"
    /\ extClosedByCaller' = TRUE
    /\ UNCHANGED <<calls, lastKnownBattery, handledBattery>>

(***************************************************************************)
(* The glue of main.py.                                                    *)
(***************************************************************************)
\* Variant: on_battery without its `global` statement assigns a local.
StoreBattery_Local(old, value) == old

\* on_battery: `global lastKnownBattery; lastKnownBattery = event.value`
StoreBattery(old, value) == value

\* The keyword arguments of sendGpsPositionToTraccar's call.
GlueKeywords(battery) == ("battery" :> battery)

OnBattery ==
    /\ \E v \in BatteryLevels :
            /\ lastKnownBattery' = StoreBattery(lastKnownBattery, Num(v))
            /\ handledBattery' = Num(v)
    /\ UNCHANGED <<calls, extSession, extClosedByCaller>>

\* on_gps_position -> sendGpsPositionToTraccar
OnGpsPosition(c) ==
    /\ calls[c].pc = "idle"
    /\ \E fix \in GpsFixes :
            Enter(c, "glue",
                  Sample(BotDid, fix.lat, fix.lon,
                         GlueKeywords(lastKnownBattery), EmptyDict),
                  "none", handledBattery)
    /\ UNCHANGED <<extClosedByCaller, lastKnownBattery, handledBattery>>

(***************************************************************************)
(* The whole input space of one call, for the validation and the encoding. *)
(***************************************************************************)
\* One value for each optional field; speed and charge take falsy values.
FieldValues ==
    [timestamp |-> Datetime(1500999), speed |-> Num(0), bearing |-> Num(180),
     altitude |-> Num(10), accuracy |-> Num(3), hdop |-> Num(1),
     battery |-> Num(85), charge |-> Bool(FALSE), valid |-> Bool(TRUE),
     driver_unique_id |-> Str("drv-7")]

\* Keywords beyond the sample's fields: plain custom attributes, custom
\* attributes named like protocol keys, and keywords named like parameters.
ExtraValues ==
    [room |-> Str("kitchen"), id |-> Str("other"), batt |-> Num(5),
     driverUniqueId |-> Str("drv-9"), lat |-> Num(999), speed |-> Num(9)]

Restrict(f, keys) == [k \in keys |-> f[k]]

EncodingInputs ==
    {Sample(Str("veh-1"), Num(37), Num(-122),
            Restrict(FieldValues, ks), Restrict(ExtraValues, xs)) :
        ks \in SUBSET DOMAIN FieldValues, xs \in SUBSET DOMAIN ExtraValues}

ValidationInputs ==
    {Sample(d, la, lo, kw, extra) :
        d \in {Str(""), None, Str("veh-1")},
        la \in {Num(-91), Num(-90), Num(0), Num(90), Num(91), Str("37"), None},
        lo \in {Num(-181), Num(-180), Num(0), Num(180), Num(181), Str("x")},
        kw \in {EmptyDict, Restrict(FieldValues, {"battery"})},
        extra \in {EmptyDict, Restrict(ExtraValues, {"lat"})}}

\* One call with any arguments, with its own or the caller's session.
AnyCall ==
    /\ calls[1].pc = "idle"
    /\ \E inp \in EncodingInputs \cup ValidationInputs, sessArg \in SessionArgs :
            Enter(1, "direct", inp, sessArg, None)
    /\ UNCHANGED <<extClosedByCaller, lastKnownBattery, handledBattery>>

(***************************************************************************)
(* Specifications.                                                         *)
(*   Spec      the client under a caller that makes up to MaxCalls         *)
(*             concurrent calls, with and without a session of its own     *)
(*   SpecGlue  main.py: battery and GPS events driving the client          *)
(*   SpecEnc   one call over the whole input space, to its first           *)
(*             suspension                                                  *)
(***************************************************************************)
Resume(c) ==
    \/ RecvResponse(c)
    \/ ReadBody(c)
    \/ TransportFailure(c)
    \/ Timeout(c)
    \/ Cancel(c)

Next ==
    \/ \E c \in CallIds : DirectCall(c) \/ Resume(c)
    \/ CallerClosesSession

Spec == Init /\ [][Next]_vars

NextGlue ==
    \/ \E c \in CallIds : OnGpsPosition(c) \/ Resume(c)
    \/ OnBattery

SpecGlue == Init /\ [][NextGlue]_vars

NextEnc == AnyCall

SpecEnc == Init /\ [][NextEnc]_vars

(***************************************************************************)
(* Properties.                                                             *)
(***************************************************************************)
Started(c) == calls[c].pc # "idle"
Done(c) == calls[c].pc = "done"

\* A request was handed to session.get.
Sent(c) == calls[c].gets # <<>>

\* The call ran into the try statement: its arguments bound, were valid and
\* were encoded.
ValidSample(c) == Started(c) /\ calls[c].cause \notin {"bind", "validation", "encode"}

\* C1: a call made without a caller-supplied session leaves no session of
\* its own open when it completes, whatever ended it: a 200 response, another
\* status, a transport failure, the timeout or the cancellation of the task.
C1_OwnSessionClosed ==
    \A c \in CallIds :
        Done(c) /\ calls[c].sessArg = "none" =>
            /\ calls[c].own # "open"
            /\ ValidSample(c) => calls[c].own = "closed"

C1_Witness ==
    \E c \in CallIds :
        /\ Done(c) /\ calls[c].sessArg = "none"
        /\ calls[c].cause = "cancel" /\ calls[c].status = 404
        /\ calls[c].own = "closed"

\* C2: no step of a call closes the session its caller supplied: whenever a
\* call moves (is made, is resumed, completes), the caller's session keeps
\* its state.
C2_ExtSessionUntouched ==
    [][calls' # calls => extSession' = extSession]_vars

C2_Witness ==
    /\ extSession = "open"
    /\ \E c, d \in CallIds :
        /\ Done(c) /\ calls[c].sessArg = "ext" /\ calls[c].cause = "cancel"
        /\ Done(d) /\ calls[d].sessArg = "ext" /\ calls[d].cause = "response"

\* The arguments the claim names invalid: an empty device id, a latitude
\* outside [-90, 90], a longitude outside [-180, 180].
Rejectable(r) ==
    \/ r.device_id = Str("")
    \/ r.lat.tag = "num" /\ (r.lat.n < -90 \/ r.lat.n > 90)
    \/ r.lon.tag = "num" /\ (r.lon.n < -180 \/ r.lon.n > 180)

\* C3: a call whose device id is empty, or whose latitude or longitude is
\* out of range, fails at once, has handed no request to a session and has
\* created no session; the error is the ValueError of the validation for
\* every call whose arguments bind to the parameters (a call that repeats a
\* parameter as a keyword is refused with a TypeError before the body runs).
C3_InvalidFailsBeforeIO ==
    \A c \in CallIds :
        Started(c) /\ Rejectable(calls[c]) =>
            /\ Done(c)
            /\ calls[c].ret = "none"
            /\ calls[c].exc = IF calls[c].cause = "bind" THEN "TypeError" ELSE "ValueError"
            /\ calls[c].cause = "bind" <=> ~BindsOk(calls[c].kw, calls[c].extra)
            /\ calls[c].gets = <<>>
            /\ calls[c].own = "none"

C3_Witness ==
    \E c \in CallIds :
        /\ Done(c) /\ calls[c].exc = "ValueError"
        /\ calls[c].device_id = Str("veh-1") /\ calls[c].lat = Num(0)
        /\ calls[c].lon = Num(181)
        /\ calls[c].gets = <<>> /\ calls[c].own = "none"

ErrorKind(cls) ==
    IF cls = "CancelledError" THEN "CancelledError"
    ELSE IF cls = "ClientError" THEN "ServerRejected"
    ELSE IF IsInstance(cls, "ClientError") \/ IsInstance(cls, "TimeoutError")
        THEN "TransportError"
    ELSE "other"

FieldKey ==
    [timestamp |-> "timestamp", speed |-> "speed", bearing |-> "bearing",
     altitude |-> "altitude", accuracy |-> "accuracy", hdop |-> "hdop",
     battery |-> "batt", charge |-> "charge", valid |-> "valid",
     driver_unique_id |-> "driverUniqueId"]

C7_Original ==
    \A c \in CallIds :
        Sent(c) =>
            \A f \in DOMAIN FieldKey :
                NamedArgs(calls[c].kw, calls[c].extra)[f] = None =>
                    FieldKey[f] \notin DOMAIN calls[c].gets[1].params

\* C7 (amended): the protocol key of an optional field that was not supplied
\* is absent from the parameters of the request, and no default stands in for
\* it, unless the caller passed a custom attribute under that very key
\* (possible for batt and driverUniqueId, whose keys are not parameter
\* names); then the key carries the custom attribute's value.
C7_OmittedFieldsAbsent ==
    \A c \in CallIds :
        Sent(c) =>
            LET sent == calls[c].gets[1].params
                custom == CustomAttributes(calls[c].kw, calls[c].extra)
            IN  \A f \in DOMAIN FieldKey :
                    NamedArgs(calls[c].kw, calls[c].extra)[f] = None =>
                        \/ FieldKey[f] \notin DOMAIN sent
                        \/ /\ FieldKey[f] \in DOMAIN custom
                           /\ FieldKey[f] \in {"batt", "driverUniqueId"}
                           /\ sent[FieldKey[f]] = custom[FieldKey[f]]

C7_Witness ==
    \E c \in CallIds :
        /\ Sent(c)
        /\ DOMAIN calls[c].kw = {"speed", "charge"}
        /\ DOMAIN calls[c].extra = {"room"}
        /\ DOMAIN calls[c].gets[1].params = {"id", "lat", "lon", "speed", "charge", "room"}

\* The protocol keys computed from the sample before the custom attributes
\* are merged.
ComputedKeys(r) == {"id", "lat", "lon"} \cup {FieldKey[f] : f \in DOMAIN r.kw}

\* C8 as stated: whenever a custom attribute has the key of a protocol
\* parameter computed for the request (id, lat, lon, batt, ...), the request
\* carries the custom value under that key, and every other computed key
\* carries its computed value.
C8_Original ==
    \A c \in CallIds :
        /\ Started(c)
        /\ Validate(calls[c].device_id, calls[c].lat, calls[c].lon) = ""
        /\ DOMAIN calls[c].extra \cap ComputedKeys(calls[c]) # {}
        =>  /\ Len(calls[c].gets) = 1
            /\ LET sent == calls[c].gets[1].params
                   computed == ProtocolParams(calls[c].device_id, calls[c].lat,
                                   calls[c].lon,
                                   [f \in DOMAIN FieldKey |-> Get(calls[c].kw, f)])
               IN  \A k \in ComputedKeys(calls[c]) :
                        /\ k \in DOMAIN sent
                        /\ sent[k] = IF k \in DOMAIN calls[c].extra
                                     THEN calls[c].extra[k] ELSE computed[k]

\* C9 as stated: a valid sample answered with a non-200 status makes the call
\* return False.
C9_Original ==
    \A c \in CallIds :
        Done(c) /\ ValidSample(c) /\ calls[c].cause = "status" =>
            calls[c].ret = "False"

\* C10: every call the glue makes for a GPS fix passes the value of the last
\* BatteryEvent handled before the call; its request carries that value as
\* batt, and carries no batt when no BatteryEvent had been handled; battery
\* events handled while the request is in flight leave it as it was sent.
C10_BatteryAtCallTime ==
    \A c \in CallIds :
        Started(c) /\ calls[c].origin = "glue" =>
            /\ calls[c].kw["battery"] = calls[c].fixBattery
            /\ Len(calls[c].gets) <= 1
            /\ ValidSample(c) => Len(calls[c].gets) = 1
            /\ Sent(c) =>
                LET sent == calls[c].gets[1].params
                IN  IF calls[c].fixBattery = None
                    THEN "batt" \notin DOMAIN sent
                    ELSE "batt" \in DOMAIN sent /\ sent["batt"] = calls[c].fixBattery

C10_Witness ==
    \E c, d \in CallIds :
        /\ calls[c].origin = "glue" /\ calls[c].pc = "awaiting_response"
        /\ "batt" \in DOMAIN calls[c].gets[1].params
        /\ calls[c].gets[1].params["batt"] = Num(0)
        /\ lastKnownBattery = Num(85)
        /\ calls[d].origin = "glue" /\ Sent(d)
        /\ "batt" \notin DOMAIN calls[d].gets[1].params

====
